---- MODULE Spec2Model ----
(***************************************************************************)
(* A model of random_distributions.py: the Randomizer construction         *)
(* protocol (sample, then mean, variance, stdev), the table reader, the    *)
(* LCG generator, the numpy-backed UniformInt, UniformFloat and Normal     *)
(* wrappers, the Neumann accept/reject loop and the two-phase CLT          *)
(* construction with its Decimal (prec = 4) arithmetic.  The display name  *)
(* of an object and its __str__ are left out.                              *)
(*                                                                         *)
(* Numbers.  A Python int is a TLA+ integer.  A float or a Decimal is an   *)
(* exact rational <<n, d>> in lowest terms with d > 0.  Decimal operations *)
(* round their exact result to prec significant digits, half-even, as the  *)
(* decimal context does.  binary64 rounding is not represented: a float    *)
(* result is the exact rational, and a float square root is kept as the    *)
(* radical <<"sqrt", n, d>>.                                               *)
(***************************************************************************)
EXTENDS Integers, Sequences, FiniteSets, TLC

VARIABLES
    calls,   \* the constructor calls the caller has still to make
    call,    \* the constructor call in progress (its class and arguments)
    pc,      \* where the construction in progress stands
    self,    \* the object under construction
    x,       \* LCG.get_randoms.generate: the current term
    lst,     \* LCG.get_randoms: the terms yielded so far
    arr,     \* Neumann.get_randoms: the accepted points
    rng,     \* numpy's global random state: draws consumed so far
    exc,     \* the exception that ended the construction, or "none"
    objs     \* the objects the caller has received, in order

vars == <<calls, call, pc, self, x, lst, arr, rng, exc, objs>>

-----------------------------------------------------------------------------
(* Bounds of the model                                                     *)

\* the largest `iterations` argument a call is made with
MaxIterations == 3
\* the random state is tracked modulo this many draws
RngStates == 2
\* the caller of the determinism runs makes this many constructor calls
MaxCalls == 3

\* getcontext().prec
prec == 4

-----------------------------------------------------------------------------
(* Exact rationals                                                         *)

Abs(n) == IF n < 0 THEN -n ELSE n

RECURSIVE GCD(_, _)
GCD(a, b) == IF b = 0 THEN a ELSE GCD(b, a % b)

RECURSIVE Pow10(_)
Pow10(k) == IF k = 0 THEN 1 ELSE 10 * Pow10(k - 1)

\* The operators below use their arguments several times over, and nest:
\* each binds its arguments first, so that they are evaluated once.

FracOf(n, d) ==
    LET g == GCD(Abs(n), Abs(d))
        s == IF d < 0 THEN -1 ELSE 1
    IN  <<s * (n \div g), s * (d \div g)>>

\* n/d in lowest terms, d > 0
Frac(n, d) == CHOOSE r \in {FracOf(v, w) : v \in {n}, w \in {d}} : TRUE

Num(n) == <<n, 1>>

Sum(p, q) ==
    LET g == GCD(p[2], q[2])
    IN  Frac(p[1] * (q[2] \div g) + q[1] * (p[2] \div g), (p[2] \div g) * q[2])

RAdd(p, q) == CHOOSE r \in {Sum(v, w) : v \in {p}, w \in {q}} : TRUE

RNeg(p) == Frac(-p[1], p[2])

RSub(p, q) == RAdd(p, RNeg(q))

Product(p, q) ==
    LET g1 == GCD(Abs(p[1]), q[2])
        g2 == GCD(Abs(q[1]), p[2])
    IN  Frac((p[1] \div g1) * (q[1] \div g2), (p[2] \div g2) * (q[2] \div g1))

RMul(p, q) == CHOOSE r \in {Product(v, w) : v \in {p}, w \in {q}} : TRUE

\* p / q, for q # 0
Quotient(p, q) == RMul(p, Frac(q[2], q[1]))

RDiv(p, q) == CHOOSE r \in {Quotient(v, w) : v \in {p}, w \in {q}} : TRUE

Less(p, q) ==
    LET g == GCD(p[2], q[2])
    IN  p[1] * (q[2] \div g) < q[1] * (p[2] \div g)

RLt(p, q) == CHOOSE r \in {Less(v, w) : v \in {p}, w \in {q}} : TRUE

RLe(p, q) == ~RLt(q, p)

RECURSIVE RSum(_)
RSum(s) == IF s = <<>> THEN Num(0) ELSE RAdd(Head(s), RSum(Tail(s)))

-----------------------------------------------------------------------------
(* decimal: results rounded to the context precision, ROUND_HALF_EVEN      *)

\* <<quotient, remainder>> of a * 10^k by b, one decimal digit at a time
RECURSIVE LongDiv(_, _, _)
LongDiv(a, b, k) ==
    IF k = 0 THEN <<a \div b, a % b>>
    ELSE LET r == LongDiv(a, b, k - 1)
         IN  <<10 * r[1] + ((10 * r[2]) \div b), (10 * r[2]) % b>>

\* the exponent e with 10^(prec-1) <= a/b / 10^e < 10^prec, for a, b > 0
RECURSIVE Adjusted(_, _, _)
Adjusted(a, b, e) ==
    IF e >= 0 /\ (a \div b) \div Pow10(e) >= Pow10(prec) THEN Adjusted(a, b, e + 1)
    ELSE IF e <= 0 /\ LongDiv(a, b, -e)[1] < Pow10(prec - 1) THEN Adjusted(a, b, e - 1)
    ELSE e

\* round-half-even of the quotient q with remainder r of a division by b
HalfEven(q, r, b) ==
    IF 2 * r > b \/ (2 * r = b /\ q % 2 = 1) THEN q + 1 ELSE q

\* the coefficient * 10^e as a rational
Scaled(c, e) == IF e >= 0 THEN Num(c * Pow10(e)) ELSE Frac(c, Pow10(-e))

\* the context's rounding of the exact value p
Round(p) ==
    IF p[1] = 0 THEN Num(0)
    ELSE LET a == Abs(p[1])
             b == p[2]
             e == Adjusted(a, b, 0)
             s == IF p[1] < 0 THEN -1 ELSE 1
         IN  IF e <= 0
             THEN LET d == LongDiv(a, b, -e)
                  IN  Scaled(s * HalfEven(d[1], d[2], b), e)
             ELSE LET m == b * Pow10(e)
                  IN  Scaled(s * HalfEven(a \div m, a % m, m), e)

\* Decimal.__sub__, __truediv__ (divisor # 0), __mul__, __add__
DSub(p, q) == Round(RSub(p, q))
DDiv(p, q) == Round(RDiv(p, q))
DMul(p, q) == Round(RMul(p, q))
DAdd(p, q) == Round(RAdd(p, q))

\* the largest s in lo..hi-1 with s * s <= n, given lo * lo <= n < hi * hi
RECURSIVE ISqrt(_, _, _)
ISqrt(n, lo, hi) ==
    IF hi - lo <= 1 THEN lo
    ELSE LET mid == (lo + hi) \div 2
         IN  IF mid * mid <= n THEN ISqrt(n, mid, hi) ELSE ISqrt(n, lo, mid)

-----------------------------------------------------------------------------
(* Unbounded naturals, for the exact sums of squares of statistics: a      *)
(* sequence of limbs in base 10^4, least significant first, <<>> for 0.    *)

Limb == Pow10(4)

RECURSIVE BigOf(_)
BigOf(n) == IF n = 0 THEN <<>> ELSE <<n % Limb>> \o BigOf(n \div Limb)

RECURSIVE BigNorm(_)
BigNorm(a) ==
    IF a = <<>> \/ a[Len(a)] # 0 THEN a ELSE BigNorm(SubSeq(a, 1, Len(a) - 1))

RECURSIVE BigToInt(_)
BigToInt(a) == IF a = <<>> THEN 0 ELSE Head(a) + Limb * BigToInt(Tail(a))

RECURSIVE BigAddC(_, _, _)
BigAddC(a, b, carry) ==
    IF a = <<>> /\ b = <<>> THEN BigOf(carry)
    ELSE LET t == (IF a = <<>> THEN 0 ELSE Head(a))
                  + (IF b = <<>> THEN 0 ELSE Head(b)) + carry
         IN  <<t % Limb>> \o BigAddC(IF a = <<>> THEN a ELSE Tail(a),
                                    IF b = <<>> THEN b ELSE Tail(b), t \div Limb)

BigAdd(a, b) == BigAddC(a, b, 0)

\* a - b - borrow, for a >= b + borrow
RECURSIVE BigSubB(_, _, _)
BigSubB(a, b, borrow) ==
    IF a = <<>> THEN <<>>
    ELSE LET t == Head(a) - (IF b = <<>> THEN 0 ELSE Head(b)) - borrow
         IN  <<t % Limb>> \o BigSubB(Tail(a), IF b = <<>> THEN b ELSE Tail(b),
                                    IF t < 0 THEN 1 ELSE 0)

BigSub(a, b) == BigNorm(BigSubB(a, b, 0))

\* a * k + carry, for 0 <= k <= 200000
RECURSIVE BigMulSmallC(_, _, _)
BigMulSmallC(a, k, carry) ==
    IF a = <<>> THEN BigOf(carry)
    ELSE LET t == Head(a) * k + carry
         IN  <<t % Limb>> \o BigMulSmallC(Tail(a), k, t \div Limb)

BigMulSmall(a, k) == BigNorm(BigMulSmallC(a, k, 0))

RECURSIVE BigMul(_, _)
BigMul(a, b) ==
    IF b = <<>> \/ a = <<>> THEN <<>>
    ELSE BigAdd(BigMulSmall(a, Head(b)), <<0>> \o BigMul(a, Tail(b)))

\* <<quotient, remainder>> of a by d, for 0 < d <= 200000
RECURSIVE BigDivSmall(_, _)
BigDivSmall(a, d) ==
    IF a = <<>> THEN <<(<<>>), 0>>
    ELSE LET hi == BigDivSmall(Tail(a), d)
             t  == hi[2] * Limb + Head(a)
         IN  <<BigNorm(<<t \div d>> \o hi[1]), t % d>>

\* <<floor(a * 10^(4w) / (d1 * d2 * d3)), whether that quotient is inexact>>
BigQuot(a, w, d1, d2, d3) ==
    LET p  == IF a = <<>> THEN a ELSE [i \in 1 .. w |-> 0] \o a
        q1 == BigDivSmall(p, d1)
        q2 == BigDivSmall(q1[1], d2)
        q3 == BigDivSmall(q2[1], d3)
    IN  <<q3[1], q1[2] # 0 \/ q2[2] # 0 \/ q3[2] # 0>>

\* <<floor(a / 10^k), whether it is inexact or `inexact` already held>>
RECURSIVE BigShift(_, _, _)
BigShift(a, k, inexact) ==
    IF k = 0 THEN <<a, inexact>>
    ELSE LET q == BigDivSmall(a, 10)
         IN  BigShift(q[1], k - 1, inexact \/ q[2] # 0)

RECURSIVE IntDigits(_)
IntDigits(n) == IF n = 0 THEN 0 ELSE 1 + IntDigits(n \div 10)

\* the number of decimal digits of a
BigDigits(a) == IF a = <<>> THEN 0 ELSE 4 * (Len(a) - 1) + IntDigits(a[Len(a)])

\* The positive value a / (d1 * d2 * d3), rounded to the context precision.
\* w grows until the quotient has a digit beyond the precision.
RECURSIVE BigRound(_, _, _, _, _)
BigRound(a, w, d1, d2, d3) ==
    LET q == BigQuot(a, w, d1, d2, d3)
        n == BigDigits(q[1])
    IN  IF n <= prec THEN BigRound(a, w + 1, d1, d2, d3)
        ELSE LET drop == n - prec
                 t == BigShift(q[1], drop - 1, q[2])
                 v == BigToInt(t[1])
                 c == v \div 10
                 d == v % 10
                 up == d > 5 \/ (d = 5 /\ (t[2] \/ c % 2 = 1))
             IN  Scaled(IF up THEN c + 1 ELSE c, drop - 4 * w)

\* statistics._decimal_sqrt_of_frac: the square root of the positive value
\* a / (d1 * d2 * d3), correctly rounded to the context precision
RECURSIVE BigSqrt(_, _, _, _, _)
BigSqrt(a, w, d1, d2, d3) ==
    LET q == BigQuot(a, w, d1, d2, d3)
        n == BigDigits(q[1])
    IN  IF n <= 2 * prec THEN BigSqrt(a, w + 1, d1, d2, d3)
        ELSE LET s  == IF (n - 2 * prec) % 2 = 0 THEN n - 2 * prec ELSE n - 2 * prec + 1
                 r  == ISqrt(BigToInt(BigShift(q[1], s, FALSE)[1]), 0, Pow10(prec))
                 \* four times the value against (2r + 1)^2
                 q4 == BigShift(BigQuot(BigMulSmall(a, 4), w, d1, d2, d3)[1], s, q[2])
                 v4 == BigToInt(q4[1])
                 k  == (2 * r + 1) * (2 * r + 1)
                 \* on an exact tie the root of the rounded quotient stands
                 vr == RMul(Num(4), BigRound(a, 0, d1, d2, d3))
                 kr == Scaled(k, s - 4 * w)
                 tie == RLt(kr, vr) \/ (kr = vr /\ r % 2 = 1)
                 up == v4 > k \/ (v4 = k /\ (q4[2] \/ tie))
             IN  Scaled(IF up THEN r + 1 ELSE r, (s - 4 * w) \div 2)

-----------------------------------------------------------------------------
(* statistics: mean, variance, stdev.  T is the type of the data: "int",   *)
(* "float" or "Decimal".                                                   *)

\* statistics._exact_ratio, over the whole data
RECURSIVE Exact(_, _)
Exact(data, T) ==
    IF data = <<>> THEN <<>>
    ELSE <<IF T = "int" THEN Num(Head(data)) ELSE Head(data)>> \o Exact(Tail(data), T)

\* the least common denominator of the ratios s
RECURSIVE Denominator(_)
Denominator(s) ==
    IF s = <<>> THEN 1
    ELSE LET l == Denominator(Tail(s))
         IN  (l \div GCD(l, Head(s)[2])) * Head(s)[2]

\* the sum of the squares of the numerators of s over the denominator l
RECURSIVE SumSquares(_, _)
SumSquares(s, l) ==
    IF s = <<>> THEN <<>>
    ELSE LET n == BigOf(Abs(Head(s)[1] * (l \div Head(s)[2])))
         IN  BigAdd(BigMul(n, n), SumSquares(Tail(s), l))

\* statistics._ss: count * sxx - sx * sx, in units of 1 / (count * l * l)
SumSq(s, l) ==
    LET sx == BigOf(Abs(RSum(s)[1] * (l \div RSum(s)[2])))
    IN  BigSub(BigMulSmall(SumSquares(s, l), Len(s)), BigMul(sx, sx))

\* statistics._convert
Convert(value, T) == IF T = "Decimal" THEN Round(value) ELSE value

\* statistics.mean, for Len(data) >= 1
mean(data, T) == Convert(RDiv(RSum(Exact(data, T)), Num(Len(data))), T)

\* statistics.variance, for Len(data) >= 2
variance(data, T) ==
    LET s  == Exact(data, T)
        l  == Denominator(s)
        ss == SumSq(s, l)
        d  == Len(s) * (Len(s) - 1)
    IN  IF ss = <<>> THEN Num(0)
        ELSE IF T = "Decimal" THEN BigRound(ss, 0, d, l, l)
        ELSE RDiv(RDiv(Frac(BigToInt(ss), d), Num(l)), Num(l))

\* statistics.stdev, for Len(data) >= 2
stdev(data, T) ==
    LET s  == Exact(data, T)
        l  == Denominator(s)
        ss == SumSq(s, l)
        d  == Len(s) * (Len(s) - 1)
        v  == RDiv(RDiv(Frac(BigToInt(ss), d), Num(l)), Num(l))
    IN  IF T = "Decimal"
        THEN IF ss = <<>> THEN Num(0) ELSE BigSqrt(ss, 0, d, l, l)
        ELSE <<"sqrt", v[1], v[2]>>

-----------------------------------------------------------------------------
(* The constructor calls the model makes                                   *)

\* uniform(0, 1): the draws of the model, each an exact binary fraction
Draws == {Frac(k, 4) : k \in 0 .. 3}

LCGCalls ==
    {[cls |-> "LCG", a |-> a, c |-> c, m |-> m, seed |-> seed, iterations |-> n] :
        a \in {-2, 3}, c \in {0, 2}, m \in {-3, 0, 5, 2239}, seed \in {-1, 24},
        n \in 0 .. MaxIterations}

UniformIntCalls ==
    {[cls |-> "UniformInt", low |-> b[1], high |-> b[2], iterations |-> n] :
        b \in {<<0, 2>>, <<1, 1>>, <<2, 0>>}, n \in 0 .. MaxIterations}

NeumannCalls ==
    {[cls |-> "Neumann", low |-> b[1], high |-> b[2], iterations |-> n] :
        b \in {<<Num(0), Num(1)>>, <<Num(1), Frac(5, 2)>>, <<Num(1), Num(2)>>,
               <<Num(0), Num(2)>>,
               <<Num(15), Num(50)>>, <<Num(2), Num(2)>>, <<Num(1), Num(0)>>,
               <<Num(3), Num(0)>>},
        n \in 0 .. MaxIterations}

CLTCalls ==
    {[cls |-> "CLT", mean |-> mu, variance |-> v, iterations |-> n] :
        mu \in {0, 3}, v \in {-1, 0, 1, 4}, n \in 0 .. MaxIterations}

\* TableMethod(): `exists` says whether rand_table.txt is there when it is
\* opened, `table` is what it holds: lines of tokens, <<"num", n>> for the
\* numeral of n and <<"bad", 0>> for a token that is no numeral
TableMethodCalls ==
    {[cls |-> "TableMethod", exists |-> FALSE, table |-> <<>>]}
    \cup {[cls |-> "TableMethod", exists |-> TRUE, table |-> t] :
            t \in {<<>>,
                   << <<(<<"num", 250>>)>> >>,
                   << <<(<<"num", 250>>), (<<"num", 7>>)>>, <<>>, <<(<<"num", 12345>>)>> >>,
                   << <<(<<"num", 10>>), (<<"num", 99>>)>>, <<(<<"bad", 0>>)>> >>}}

UniformFloatCalls ==
    {[cls |-> "UniformFloat", low |-> b[1], high |-> b[2], iterations |-> n] :
        b \in {<<0, 1>>, <<2, 2>>, <<3, 1>>}, n \in 0 .. MaxIterations}

NormalCalls ==
    {[cls |-> "Normal", mean |-> b[1], stdev |-> b[2], iterations |-> n] :
        b \in {<<0, 1>>, <<2, 0>>, <<0, -1>>}, n \in 0 .. MaxIterations}

\* the object slot while no construction is in progress
NoObject == [cls |-> "none"]

\* the attributes Randomizer.__init__ assigns, before it runs
Unset == [has |-> {}, sample |-> <<>>, mean |-> <<>>, variance |-> <<>>, stdev |-> <<>>]

\* the type statistics sees in the sample of each class
SampleType(cls) ==
    CASE cls = "LCG" -> "int"
      [] cls = "UniformInt" -> "int"
      [] cls = "Neumann" -> "float"
      [] cls = "CLT" -> "Decimal"
      [] cls = "TableMethod" -> "Decimal"
      [] cls = "UniformFloat" -> "float"
      [] cls = "Normal" -> "float"

Calling(cls) == pc = "caller" /\ calls # <<>> /\ Head(calls).cls = cls

Raise(e) == pc' = "raised" /\ exc' = e

-----------------------------------------------------------------------------
(* LCG                                                                     *)

\* Python's %, for m # 0: the result has the sign of m
PyMod(v, m) == IF m > 0 THEN v % m ELSE -((-v) % (-m))

\* the recurrence of generate
LCGTerm(a, c, m, xn) == PyMod(a * xn + c, m)

\* range(self.iterations - 1) has an i-th turn
InRangeInclusive(i, iterations) == i < iterations

InRange(i, iterations) == i < iterations - 1

\* generate: x = seed
FirstTermFromState(seed) == seed + rng

FirstTerm(seed) == seed

\* LCG.__init__ up to the first yield of generate
ConstructLCG ==
    /\ Calling("LCG")
    /\ LET k == Head(calls)
       IN  /\ self' = [cls |-> "LCG", a |-> k.a, c |-> k.c, m |-> k.m,
                       seed |-> k.seed, iterations |-> k.iterations] @@ Unset
           /\ x' = FirstTerm(k.seed)
           /\ lst' = <<x'>>
           /\ call' = k
    /\ calls' = Tail(calls)
    /\ pc' = "generate"
    /\ UNCHANGED <<arr, rng, exc, objs>>

\* one turn of the loop of generate
LCGNext ==
    /\ pc = "generate"
    /\ InRange(Len(lst) - 1, self.iterations)
    /\ IF self.m = 0
       THEN Raise("ZeroDivisionError") /\ UNCHANGED <<x, lst>>
       ELSE /\ x' = LCGTerm(self.a, self.c, self.m, x)
            /\ lst' = Append(lst, x')
            /\ UNCHANGED <<pc, exc>>
    /\ UNCHANGED <<calls, call, self, arr, rng, objs>>

\* generate is exhausted: get_randoms returns lst
LCGReturn ==
    /\ pc = "generate"
    /\ ~InRange(Len(lst) - 1, self.iterations)
    /\ self' = [self EXCEPT !.sample = lst, !.has = @ \cup {"sample"}]
    /\ pc' = "mean"
    /\ UNCHANGED <<calls, call, x, lst, arr, rng, exc, objs>>

-----------------------------------------------------------------------------
(* Randomizer.__init__: the statistics of the stored sample                *)

StatMean ==
    /\ pc = "mean"
    /\ IF Len(self.sample) < 1
       THEN Raise("StatisticsError") /\ UNCHANGED self
       ELSE /\ self' = [self EXCEPT !.mean = mean(self.sample, SampleType(self.cls)),
                                    !.has = @ \cup {"mean"}]
            /\ pc' = "variance"
            /\ UNCHANGED exc
    /\ UNCHANGED <<calls, call, x, lst, arr, rng, objs>>

StatVarianceUnchecked ==
    /\ pc = "variance"
    /\ self' = [self EXCEPT !.variance = IF Len(self.sample) < 2 THEN Num(0)
                                         ELSE variance(self.sample, SampleType(self.cls)),
                             !.has = @ \cup {"variance"}]
    /\ pc' = "stdev"
    /\ UNCHANGED <<calls, call, x, lst, arr, rng, exc, objs>>

StatVariance ==
    /\ pc = "variance"
    /\ IF Len(self.sample) < 2
       THEN Raise("StatisticsError") /\ UNCHANGED self
       ELSE /\ self' = [self EXCEPT !.variance = variance(self.sample, SampleType(self.cls)),
                                    !.has = @ \cup {"variance"}]
            /\ pc' = "stdev"
            /\ UNCHANGED exc
    /\ UNCHANGED <<calls, call, x, lst, arr, rng, objs>>

StatStdev ==
    /\ pc = "stdev"
    /\ IF Len(self.sample) < 2
       THEN Raise("StatisticsError") /\ UNCHANGED self
       ELSE /\ self' = [self EXCEPT !.stdev = stdev(self.sample, SampleType(self.cls)),
                                    !.has = @ \cup {"stdev"}]
            /\ pc' = "constructed"
            /\ UNCHANGED exc
    /\ UNCHANGED <<calls, call, x, lst, arr, rng, objs>>

\* the constructor returns: the caller holds the object
Return ==
    /\ pc = "constructed"
    /\ self.cls # "CLT"
    /\ objs' = Append(objs, self)
    /\ self' = NoObject
    /\ pc' = "caller"
    /\ x' = 0
    /\ lst' = <<>>
    /\ arr' = <<>>
    /\ UNCHANGED <<calls, call, rng, exc>>

-----------------------------------------------------------------------------
(* UniformInt                                                              *)

ConstructUniformInt ==
    /\ Calling("UniformInt")
    /\ LET k == Head(calls)
       IN  /\ self' = [cls |-> "UniformInt", low |-> k.low, high |-> k.high,
                       iterations |-> k.iterations] @@ Unset
           /\ call' = k
    /\ calls' = Tail(calls)
    /\ pc' = "get_randoms"
    /\ UNCHANGED <<x, lst, arr, rng, exc, objs>>

\* list(randint(low, high, iterations)): integers of [low, high)
UniformIntGetRandoms ==
    /\ pc = "get_randoms"
    /\ self.cls = "UniformInt"
    /\ IF self.low >= self.high
       THEN Raise("ValueError") /\ UNCHANGED <<self, rng>>
       ELSE /\ \E s \in [1 .. self.iterations -> self.low .. self.high - 1] :
                  self' = [self EXCEPT !.sample = s, !.has = @ \cup {"sample"}]
            /\ rng' = (rng + self.iterations) % RngStates
            /\ pc' = "mean"
            /\ UNCHANGED exc
    /\ UNCHANGED <<calls, call, x, lst, arr, objs>>

-----------------------------------------------------------------------------
(* TableMethod                                                             *)

\* the tokens of the lines, in order
RECURSIVE Tokens(_)
Tokens(lines) == IF lines = <<>> THEN <<>> ELSE Head(lines) \o Tokens(Tail(lines))

\* Decimal(x)/Decimal(100) for each token
Scale100(tokens) == [i \in 1 .. Len(tokens) |-> DDiv(Num(tokens[i][2]), Num(100))]

ConstructTableMethod ==
    /\ Calling("TableMethod")
    /\ self' = [cls |-> "TableMethod"] @@ Unset
    /\ call' = Head(calls)
    /\ calls' = Tail(calls)
    /\ pc' = "get_randoms"
    /\ UNCHANGED <<x, lst, arr, rng, exc, objs>>

TableGetRandoms ==
    /\ pc = "get_randoms"
    /\ self.cls = "TableMethod"
    /\ IF ~call.exists
       THEN Raise("FileNotFoundError") /\ UNCHANGED self
       ELSE IF \E i \in 1 .. Len(Tokens(call.table)) : Tokens(call.table)[i][1] = "bad"
       THEN Raise("InvalidOperation") /\ UNCHANGED self
       ELSE /\ self' = [self EXCEPT !.sample = Scale100(Tokens(call.table)),
                                    !.has = @ \cup {"sample"}]
            /\ pc' = "mean"
            /\ UNCHANGED exc
    /\ UNCHANGED <<calls, call, x, lst, arr, rng, objs>>

-----------------------------------------------------------------------------
(* UniformFloat                                                            *)

ConstructUniformFloat ==
    /\ Calling("UniformFloat")
    /\ LET k == Head(calls)
       IN  /\ self' = [cls |-> "UniformFloat", low |-> k.low, high |-> k.high,
                       iterations |-> k.iterations] @@ Unset
           /\ call' = k
    /\ calls' = Tail(calls)
    /\ pc' = "get_randoms"
    /\ UNCHANGED <<x, lst, arr, rng, exc, objs>>

\* list(uniform(low, high, iterations)): low + (high - low) * a draw of [0, 1)
UniformFloatGetRandoms ==
    /\ pc = "get_randoms"
    /\ self.cls = "UniformFloat"
    /\ \E u \in [1 .. self.iterations -> Draws] :
          self' = [self EXCEPT
                      !.sample = [i \in 1 .. self.iterations |->
                                     RAdd(Num(self.low),
                                          RMul(Num(self.high - self.low), u[i]))],
                      !.has = @ \cup {"sample"}]
    /\ rng' = (rng + self.iterations) % RngStates
    /\ pc' = "mean"
    /\ UNCHANGED <<calls, call, x, lst, arr, exc, objs>>

-----------------------------------------------------------------------------
(* Normal                                                                  *)

\* Normal.__init__ up to super().__init__
ConstructNormal ==
    /\ Calling("Normal")
    /\ LET k == Head(calls)
       IN  /\ self' = [cls |-> "Normal", iterations |-> k.iterations,
                       mean_ |-> k.mean, stdev_ |-> k.stdev] @@ Unset
           /\ call' = k
    /\ calls' = Tail(calls)
    /\ pc' = "get_randoms"
    /\ UNCHANGED <<x, lst, arr, rng, exc, objs>>

\* normal(mean_, stdev_, iterations): the draws of the model lie at
\* mean_ + z * stdev_ for z in -1 .. 1
NormalGetRandoms ==
    /\ pc = "get_randoms"
    /\ self.cls = "Normal"
    /\ IF self.stdev_ < 0
       THEN Raise("ValueError") /\ UNCHANGED <<self, rng>>
       ELSE /\ \E z \in [1 .. self.iterations -> -1 .. 1] :
                  self' = [self EXCEPT
                              !.sample = [i \in 1 .. self.iterations |->
                                             Num(self.mean_ + z[i] * self.stdev_)],
                              !.has = @ \cup {"sample"}]
            /\ rng' = (rng + self.iterations) % RngStates
            /\ pc' = "mean"
            /\ UNCHANGED exc
    /\ UNCHANGED <<calls, call, x, lst, arr, objs>>

-----------------------------------------------------------------------------
(* Neumann                                                                 *)

NeumannC(low, high) ==
    LET d == RSub(high, low)
    IN  RDiv(RAdd(Num(12), RMul(d, RMul(d, d))), RMul(Num(12), d))

NeumannMHalfWidth(low, high) == RDiv(RSub(high, low), Num(2))

NeumannM(low, high) == RDiv(RAdd(low, high), Num(2))

dist_func(y) ==
    LET dev == RSub(y, self.m)
    IN  RSub(self.C, RMul(dev, dev))

\* generate: alpha and beta from the draws r_1 and r_2
AlphaUnscaled(r_1) == RAdd(self.low, RMul(r_1, self.high))

Alpha(r_1) == RAdd(self.low, RMul(r_1, RSub(self.high, self.low)))

Beta(r_2) == RMul(r_2, self.C)

\* generate returns alpha, not None
Accepted(r_1, r_2) == RLt(Beta(r_2), dist_func(Alpha(r_1)))

\* the break test that ends a turn of the loop
BreakPast(a) == Len(a) > self.iterations

Break(a) == Len(a) = self.iterations

\* Neumann.__init__ up to arr = [] in get_randoms
ConstructNeumann ==
    /\ Calling("Neumann")
    /\ LET k == Head(calls)
           o == [cls |-> "Neumann", low |-> k.low, high |-> k.high,
                 iterations |-> k.iterations, C |-> <<>>, m |-> <<>>] @@ Unset
       IN  /\ call' = k
           /\ IF RSub(k.high, k.low) = Num(0)
              THEN /\ self' = o
                   /\ Raise("ZeroDivisionError")
              ELSE /\ self' = [o EXCEPT !.C = NeumannC(k.low, k.high),
                                        !.m = NeumannM(k.low, k.high)]
                   /\ pc' = "loop"
                   /\ UNCHANGED exc
    /\ calls' = Tail(calls)
    /\ arr' = <<>>
    /\ UNCHANGED <<x, lst, rng, objs>>

\* what follows the append, or its absence, in one turn of the loop
EndTurn(a) ==
    /\ arr' = a
    /\ rng' = (rng + 2) % RngStates
    /\ IF Break(a)
       THEN /\ self' = [self EXCEPT !.sample = a, !.has = @ \cup {"sample"}]
            /\ pc' = "mean"
       ELSE UNCHANGED <<self, pc>>
    /\ UNCHANGED <<calls, call, x, lst, exc, objs>>

\* a turn of the loop in which generate returns a point
NeumannAccept ==
    /\ pc = "loop"
    /\ Len(arr) <= MaxIterations
    /\ \E r_1 \in Draws, r_2 \in Draws :
          /\ Accepted(r_1, r_2)
          /\ EndTurn(Append(arr, Alpha(r_1)))

\* a turn of the loop in which generate returns None
NeumannReject ==
    /\ pc = "loop"
    /\ \E r_1 \in Draws, r_2 \in Draws :
          /\ ~Accepted(r_1, r_2)
          /\ EndTurn(arr)

-----------------------------------------------------------------------------
(* CLT                                                                     *)

\* itertools.accumulate
RECURSIVE accumulate(_)
accumulate(u) ==
    IF Len(u) <= 1 THEN u
    ELSE LET front == accumulate(SubSeq(u, 1, Len(u) - 1))
         IN  Append(front, RAdd(front[Len(front)], u[Len(u)]))

\* math.sqrt of a perfect square (the target variances of CLTCalls)
sqrt(v) == ISqrt(v, 0, v + 1)

\* the first comprehension of transform
StandardizedByStdev(sample, mu, var) ==
    [i \in 1 .. Len(sample) |-> DDiv(DSub(sample[i], mu), self.stdev)]

Standardized(sample, mu, var) ==
    [i \in 1 .. Len(sample) |-> DDiv(DSub(sample[i], mu), var)]

\* the second comprehension of transform
Rescaled(l, sd, mean_) ==
    [i \in 1 .. Len(l) |-> DAdd(DMul(l[i], Num(sd)), Num(mean_))]

ConstructCLT ==
    /\ Calling("CLT")
    /\ LET k == Head(calls)
       IN  /\ self' = [cls |-> "CLT", iterations |-> k.iterations,
                       mean_ |-> <<>>, variance_ |-> <<>>] @@ Unset
           /\ call' = k
    /\ calls' = Tail(calls)
    /\ pc' = "get_randoms"
    /\ UNCHANGED <<x, lst, arr, rng, exc, objs>>

\* the running sums of `iterations` uniform draws, as Decimals
CLTGetRandoms ==
    /\ pc = "get_randoms"
    /\ self.cls = "CLT"
    /\ \E u \in [1 .. self.iterations -> Draws] :
          self' = [self EXCEPT !.sample = accumulate(u), !.has = @ \cup {"sample"}]
    /\ rng' = (rng + self.iterations) % RngStates
    /\ pc' = "mean"
    /\ UNCHANGED <<calls, call, x, lst, arr, exc, objs>>

\* CLT.__init__ after Randomizer.__init__: mean_, variance_, transform()
CLTTransform ==
    /\ pc = "constructed"
    /\ self.cls = "CLT"
    /\ LET o == [self EXCEPT !.mean_ = call.mean, !.variance_ = call.variance]
       IN  IF o.variance = Num(0)
           THEN /\ self' = o
                /\ Raise(IF DSub(o.sample[1], o.mean) = Num(0)
                         THEN "InvalidOperation" ELSE "DivisionByZero")
                /\ UNCHANGED objs
           ELSE IF o.variance_ < 0
           THEN /\ self' = o
                /\ Raise("ValueError")
                /\ UNCHANGED objs
           ELSE LET l == Rescaled(Standardized(o.sample, o.mean, o.variance),
                                  sqrt(o.variance_), o.mean_)
                IN  /\ objs' = Append(objs,
                           [o EXCEPT !.variance = variance(l, "Decimal"),
                                     !.mean = mean(l, "Decimal"),
                                     !.stdev = stdev(l, "Decimal")])
                    /\ self' = NoObject
                    /\ pc' = "caller"
                    /\ UNCHANGED exc
    /\ UNCHANGED <<calls, call, x, lst, arr, rng>>

-----------------------------------------------------------------------------
(* Specifications                                                          *)

NoCall == [cls |-> "none"]

Start(cs) ==
    /\ calls \in cs
    /\ call = NoCall
    /\ pc = "caller"
    /\ self = NoObject
    /\ x = 0
    /\ lst = <<>>
    /\ arr = <<>>
    /\ rng = 0
    /\ exc = "none"
    /\ objs = <<>>

\* one constructor call, of any class
Init ==
    Start({<<k>> : k \in TableMethodCalls \cup LCGCalls \cup UniformIntCalls
                         \cup UniformFloatCalls \cup NeumannCalls \cup CLTCalls
                         \cup NormalCalls})

Next ==
    \/ ConstructTableMethod \/ TableGetRandoms
    \/ ConstructLCG \/ LCGNext \/ LCGReturn
    \/ ConstructUniformInt \/ UniformIntGetRandoms
    \/ ConstructUniformFloat \/ UniformFloatGetRandoms
    \/ ConstructNeumann \/ NeumannAccept \/ NeumannReject
    \/ ConstructCLT \/ CLTGetRandoms \/ CLTTransform
    \/ ConstructNormal \/ NormalGetRandoms
    \/ StatMean \/ StatVariance \/ StatStdev \/ Return

Spec == Init /\ [][Next]_vars

\* the caller constructs MaxCalls generators in a row: LCG twice over the
\* same or different arguments, numpy-backed generators before and between
RunCalls ==
    {[cls |-> "LCG", a |-> 3, c |-> 2, m |-> m, seed |-> 24, iterations |-> n] :
        m \in {5, 2239}, n \in {2, 3}}
    \cup {[cls |-> "UniformInt", low |-> 0, high |-> 2, iterations |-> n] : n \in {2, 3}}

InitRuns == Start([1 .. MaxCalls -> RunCalls])

NextRuns ==
    \/ ConstructLCG \/ LCGNext \/ LCGReturn
    \/ ConstructUniformInt \/ UniformIntGetRandoms
    \/ StatMean \/ StatVariance \/ StatStdev \/ Return

SpecRuns == InitRuns /\ [][NextRuns]_vars

\* one Neumann construction, its draws fair: a turn that accepts is taken
\* again and again while the loop runs
InitNeumann == Start({<<k>> : k \in NeumannCalls})

NextNeumann ==
    \/ ConstructNeumann \/ NeumannAccept \/ NeumannReject
    \/ StatMean \/ StatVariance \/ StatStdev \/ Return

FairNeumann == InitNeumann /\ [][NextNeumann]_vars /\ WF_vars(NeumannAccept)

-----------------------------------------------------------------------------
(* Properties                                                              *)

\* the object under construction is of class cls and holds its sample
Sampled(cls) == self.cls = cls /\ "sample" \in self.has

\* C1: for m > 0 and iterations >= 1, the sample LCG.get_randoms returns has
\* exactly `iterations` terms, starts with seed, and every later term is
\* (a * previous + c) mod m.
C1_LCGRecurrence ==
    (Sampled("LCG") /\ self.m > 0 /\ self.iterations >= 1) =>
        /\ Len(self.sample) = self.iterations
        /\ self.sample[1] = self.seed
        /\ \A n \in 2 .. Len(self.sample) :
              self.sample[n] = (self.a * self.sample[n - 1] + self.c) % self.m

C1_Witness ==
    /\ Sampled("LCG")
    /\ self.m = 2239 /\ self.a = -2 /\ self.seed = 24
    /\ Len(self.sample) = 3
    /\ self.sample[3] # self.sample[2]

\* C2: for low < high and iterations >= 1, every point of the sample
\* Neumann.get_randoms returns lies in [low, high], and the sample has
\* exactly `iterations` points.
C2_NeumannSample ==
    (Sampled("Neumann") /\ RLt(self.low, self.high) /\ self.iterations >= 1) =>
        /\ Len(self.sample) = self.iterations
        /\ \A i \in 1 .. Len(self.sample) :
              RLe(self.low, self.sample[i]) /\ RLe(self.sample[i], self.high)

C2_Witness ==
    /\ Sampled("Neumann")
    /\ self.low = Num(15) /\ self.high = Num(50)
    /\ Len(self.sample) = 3
    /\ self.sample[1] # self.sample[2]

\* C3: a constructed CLT object holds the transformed sequence as its
\* sample, and its mean, variance and stdev are the statistics of the
\* sample it holds.
C3_CLTConsistent ==
    \A i \in 1 .. Len(objs) :
        objs[i].cls = "CLT" =>
            /\ objs[i].mean = mean(objs[i].sample, "Decimal")
            /\ objs[i].variance = variance(objs[i].sample, "Decimal")
            /\ objs[i].stdev = stdev(objs[i].sample, "Decimal")

\* phase 2 of the CLT construction, element by element: standardize with
\* the statistics of the phase-1 sample, dividing by its variance, then
\* rescale to the target
C4_Mapped(o) ==
    LET mean1 == mean(o.sample, "Decimal")
        variance1 == variance(o.sample, "Decimal")
    IN  [i \in 1 .. Len(o.sample) |->
            DAdd(DMul(DDiv(DSub(o.sample[i], mean1), variance1),
                      Num(sqrt(o.variance_))),
                 Num(o.mean_))]

\* C4: transform maps every element x of the phase-1 sample to
\* ((x - mean1) / variance1) * sqrt(targetVariance) + targetMean, with the
\* phase-1 mean and variance; the statistics a constructed CLT object
\* stores are those of the mapped sequence.
C4_CLTTransform ==
    \A i \in 1 .. Len(objs) :
        objs[i].cls = "CLT" =>
            /\ objs[i].mean = mean(C4_Mapped(objs[i]), "Decimal")
            /\ objs[i].variance = variance(C4_Mapped(objs[i]), "Decimal")
            /\ objs[i].stdev = stdev(C4_Mapped(objs[i]), "Decimal")

C4_Witness ==
    /\ objs # <<>>
    /\ objs[1].cls = "CLT"
    /\ objs[1].mean_ = 3 /\ objs[1].variance_ = 4
    /\ objs[1].sample = <<Num(0), Frac(1, 2), Frac(3, 4)>>
    /\ objs[1].stdev # objs[1].variance

\* C5: a Neumann construction with high <= low (iterations >= 1) fails with
\* InvalidParameter and produces no sample.
C5_NeumannInvalid ==
    (call.cls = "Neumann" /\ RLe(call.high, call.low) /\ call.iterations >= 1) =>
        /\ objs = <<>>
        /\ arr = <<>>
        /\ self.cls = "Neumann" => "sample" \notin self.has
        /\ pc = "raised" => exc = "InvalidParameter"

\* C6: an LCG construction with m <= 0 and iterations >= 1 fails with
\* InvalidParameter and produces no sample.
C6_LCGInvalid ==
    (call.cls = "LCG" /\ call.m <= 0 /\ call.iterations >= 1) =>
        /\ objs = <<>>
        /\ self.cls = "LCG" => "sample" \notin self.has
        /\ pc = "raised" => exc = "InvalidParameter"

\* C7: once a sample of fewer than 2 elements is stored, the construction
\* is in the mean or variance step or has failed there with
\* StatisticsError; every object the caller receives has a sample of at
\* least 2 elements and all three statistics.
C7_ShortSample ==
    /\ (self.cls # "none" /\ "sample" \in self.has /\ Len(self.sample) < 2) =>
          /\ pc \in {"mean", "variance", "raised"}
          /\ pc = "raised" => exc = "StatisticsError"
    /\ \A i \in 1 .. Len(objs) :
          /\ Len(objs[i].sample) >= 2
          /\ {"sample", "mean", "variance", "stdev"} \subseteq objs[i].has

C7_Witness ==
    /\ pc = "raised" /\ exc = "StatisticsError"
    /\ objs = <<>>
    /\ Len(self.sample) = 1
    /\ self.has = {"sample", "mean"}

\* the arguments an LCG object was constructed with
LCGArgs(o) == <<o.a, o.c, o.m, o.seed, o.iterations>>

\* C8: two LCG objects constructed with the same (a, c, m, seed,
\* iterations) hold the same sample, whatever was constructed before or
\* between them.
C8_LCGDeterministic ==
    \A i, j \in 1 .. Len(objs) :
        (objs[i].cls = "LCG" /\ objs[j].cls = "LCG"
            /\ LCGArgs(objs[i]) = LCGArgs(objs[j])) =>
                objs[i].sample = objs[j].sample

C8_Witness ==
    /\ Len(objs) = 3
    /\ objs[1].cls = "LCG" /\ objs[3].cls = "LCG"
    /\ objs[2].cls = "UniformInt" /\ objs[2].iterations = 3
    /\ LCGArgs(objs[1]) = LCGArgs(objs[3])
    /\ objs[1].m = 2239 /\ objs[1].iterations = 3

\* the loop of Neumann.get_randoms is running on a valid configuration
InLoop ==
    /\ pc = "loop"
    /\ RLt(self.low, self.high)
    /\ self.iterations >= 1

\* C9: for low < high and iterations >= 1, with fair draws the loop of
\* Neumann.get_randoms terminates: in every state of the loop some draw is
\* accepted and fewer than `iterations` points are held, and the loop is
\* eventually left.
C9_NeumannTerminates ==
    /\ [](InLoop => /\ \E r_1 \in Draws, r_2 \in Draws : Accepted(r_1, r_2)
                    /\ Len(arr) < self.iterations)
    /\ (InLoop ~> pc # "loop")

C9_Witness ==
    /\ Sampled("Neumann")
    /\ pc = "mean"
    /\ self.low = Num(1) /\ self.high = Frac(5, 2)
    /\ Len(self.sample) = 3

\* the points low + k (high - low) / 4 of [low, high], both ends included
Points == {RAdd(self.low, RMul(Frac(k, 4), RSub(self.high, self.low))) : k \in 0 .. 4}

\* (high - low)^3
Width3 == LET d == RSub(self.high, self.low) IN RMul(d, RMul(d, d))

\* a Neumann object with low < high and iterations >= 1 whose C and m are set
Density ==
    /\ self.cls = "Neumann"
    /\ self.C # <<>>
    /\ RLt(self.low, self.high)
    /\ self.iterations >= 1

\* C10: for low < high, 0 <= f(y) <= C for every y in [low, high], the
\* ends included.
C10_Envelope ==
    Density => \A y \in Points : RLe(Num(0), dist_func(y)) /\ RLe(dist_func(y), self.C)

\* C10, amended: f(y) <= C on [low, high], with f = C > 0 at the midpoint;
\* f >= 0 on the whole interval exactly when (high - low)^3 <= 6, and
\* otherwise f is negative at both ends.
C10_EnvelopeAbove ==
    Density =>
        /\ \A y \in Points : RLe(dist_func(y), self.C)
        /\ dist_func(RDiv(RAdd(self.low, self.high), Num(2))) = self.C
        /\ RLt(Num(0), self.C)
        /\ RLe(Width3, Num(6)) => \A y \in Points : RLe(Num(0), dist_func(y))
        /\ RLt(Num(6), Width3) =>
              RLt(dist_func(self.low), Num(0)) /\ RLt(dist_func(self.high), Num(0))

C10_Witness ==
    /\ Density
    /\ pc = "loop"
    /\ self.low = Num(1) /\ self.high = Frac(5, 2)
    /\ arr # <<>>

====
